---- MODULE Spec2Model ----
(***************************************************************************)
(* LAN service discovery of brennie/cribbage (src/src/net.rs).             *)
(*                                                                         *)
(* serve_advertisement(port) owns a UDP socket bound to 0.0.0.0:29999 and  *)
(* joined to the group 229.29.29.29; it answers every frame whose payload  *)
(* is MAGIC_REQUEST with a bincode-serialised AdvertisementResponse sent   *)
(* to the frame's peer address.  query_advertisements() owns a socket      *)
(* bound to 0.0.0.0:1234, sends one framed MAGIC_REQUEST to the group and  *)
(* then reads frames until the framed stream ends or fails.                *)
(*                                                                         *)
(* Bytes are integers 0..255 and a datagram's content is a sequence of     *)
(* bytes, so that framing and serialisation are computed, not assumed.     *)
(***************************************************************************)
EXTENDS Integers, Sequences, FiniteSets, TLC

(***************************************************************************)
(* Bounds of the model.                                                    *)
(***************************************************************************)
\* Datagrams the environment may inject into sockets in one behaviour.
MaxInject == 3
\* The ports 0..MaxLowPort are among the ports a Response is encoded with.
MaxLowPort == 9
\* Operations on one deck after it is made.
MaxDeckOps == 5
\* Last instant of the clock.
MaxTime == 3

(***************************************************************************)
(* Program constants.                                                      *)
(***************************************************************************)
IP_ALL == <<0, 0, 0, 0>>
IP_MULTICAST == <<229, 29, 29, 29>>
ADVERT_PORT == 29999
\* The local port query_advertisements binds.
QUERY_PORT == 1234

\* "cribbage-advertisement-request" as bytes
MAGIC_REQUEST ==
  <<99, 114, 105, 98, 98, 97, 103, 101, 45, 97, 100, 118, 101, 114, 116, 105,
    115, 101, 109, 101, 110, 116, 45, 114, 101, 113, 117, 101, 115, 116>>
\* "cribbage-advertisement-response" as bytes
MAGIC_RESPONSE ==
  <<99, 114, 105, 98, 98, 97, 103, 101, 45, 97, 100, 118, 101, 114, 116, 105,
    115, 101, 109, 101, 110, 116, 45, 114, 101, 115, 112, 111, 110, 115, 101>>

Addr(ip, port) == [ip |-> ip, port |-> port]
\* multicast_addr of query_advertisements
MulticastAddr == Addr(IP_MULTICAST, ADVERT_PORT)

(***************************************************************************)
(* Framing: LengthDelimitedCodec::new() as UdpFramed uses it.  A frame is  *)
(* a 4-byte big-endian length followed by that many payload bytes; frames  *)
(* longer than 8 MiB are refused.  UdpFramed decodes each datagram on its  *)
(* own and clears its read buffer afterwards, so bytes after the first     *)
(* frame of a datagram are dropped.                                        *)
(***************************************************************************)
HEAD_LEN == 4
\* 8 * 1024 * 1024
MAX_FRAME_LENGTH == 8388608

\* The length header of a payload of n bytes (n < 2^31), big-endian.
FrameHead(n) ==
  <<(n \div 16777216) % 256, (n \div 65536) % 256, (n \div 256) % 256, n % 256>>

FrameEncode(payload) == FrameHead(Len(payload)) \o payload

\* The result of one poll of the framed stream on datagram content b:
\*   [res |-> "some", data |-> payload]  a frame
\*   [res |-> "none", data |-> <<>>]     Ok(None): not enough bytes
\*   [res |-> "err",  data |-> <<>>]     Err: the head announces too long a frame
FrameDecode(b) ==
  IF Len(b) < HEAD_LEN THEN [res |-> "none", data |-> <<>>]
  ELSE IF b[1] > 0 \/ b[2] * 65536 + b[3] * 256 + b[4] > MAX_FRAME_LENGTH
    THEN [res |-> "err", data |-> <<>>]
  ELSE LET n == b[2] * 65536 + b[3] * 256 + b[4] IN
    IF Len(b) - HEAD_LEN < n THEN [res |-> "none", data |-> <<>>]
    ELSE [res |-> "some", data |-> SubSeq(b, HEAD_LEN + 1, HEAD_LEN + n)]

(***************************************************************************)
(* bincode of AdvertisementResponse { magic: &str, port: u16 }: the        *)
(* string as a u64 little-endian length and its bytes, the port as two     *)
(* little-endian bytes.                                                    *)
(***************************************************************************)
U64_LEN == 8
U16_LEN == 2

\* A length below 2^31 as eight little-endian bytes.
LeU64(n) ==
  <<n % 256, (n \div 256) % 256, (n \div 65536) % 256, (n \div 16777216) % 256,
    0, 0, 0, 0>>

\* LeU16 with the bytes in network order.
LeU16BigEndian(p) == <<(p \div 256) % 256, p % 256>>

LeU16(p) == <<p % 256, (p \div 256) % 256>>

\* bincode::serialize(&AdvertisementResponse { magic, port })
Serialize(magic, port) == LeU64(Len(magic)) \o magic \o LeU16(port % 65536)

\* A byte string is text when every byte is ASCII (the inputs of the model
\* hold no multi-byte UTF-8 sequence, so every byte above 127 is invalid).
IsUtf8(s) == \A i \in 1..Len(s) : s[i] < 128

\* bincode::deserialize::<AdvertisementResponse>(b): trailing bytes are allowed.
Deserialize(b) ==
  IF Len(b) < U64_LEN THEN [ok |-> FALSE, magic |-> <<>>, port |-> 0]
  ELSE IF b[5] > 0 \/ b[6] > 0 \/ b[7] > 0 \/ b[8] > 0 \/ b[4] > 127
    THEN [ok |-> FALSE, magic |-> <<>>, port |-> 0]
  ELSE LET n == b[1] + b[2] * 256 + b[3] * 65536 + b[4] * 16777216 IN
    IF Len(b) - U64_LEN - U16_LEN < n
      THEN [ok |-> FALSE, magic |-> <<>>, port |-> 0]
    ELSE LET m == SubSeq(b, U64_LEN + 1, U64_LEN + n) IN
      IF ~IsUtf8(m) THEN [ok |-> FALSE, magic |-> <<>>, port |-> 0]
      ELSE [ok |-> TRUE, magic |-> m,
            port |-> b[U64_LEN + n + 1] + 256 * b[U64_LEN + n + 2]]

(***************************************************************************)
(* The participants.  Every server runs serve_advertisement(ServicePort),  *)
(* every client runs query_advertisements(); a socket is named after the   *)
(* task that owns it.                                                      *)
(***************************************************************************)
Servers == {"s1", "s2"}
Clients == {"c1", "c2"}
Sockets == Servers \cup Clients

\* The argument of serve_advertisement.
ServicePort(s) == IF s = "s1" THEN 4001 ELSE 4002

\* The address of the host a task runs on: the two queries share a host.
Host(k) ==
  CASE k = "s1" -> <<10, 0, 0, 1>>
    [] k = "s2" -> <<10, 0, 0, 2>>
    [] OTHER -> <<10, 0, 0, 3>>

\* The port the task's socket is bound to (on IP_ALL).
LocalPort(k) == IF k \in Servers THEN ADVERT_PORT ELSE QUERY_PORT

\* The address a datagram sent from the socket carries as its peer address.
LocalAddr(k) == Addr(Host(k), LocalPort(k))

\* An entry of a task's log of I/O results.
Event(ev, data, addr) == [ev |-> ev, data |-> data, addr |-> addr]
NoAddr == Addr(IP_ALL, 0)
Datagram(data, from) == [data |-> data, from |-> from]
Outgoing(data, to) == [data |-> data, to |-> to]

VARIABLES
  srvPc,       \* server -> "recv" | "send" | "done_ok" | "done_err"
  srvPending,  \* server -> the (payload, address) handed to tx.send, or <<>>
  srvLog,      \* server -> the I/O results of the task so far, in order
  qPc,         \* client -> "idle" | "send" | "recv" | "done_ok" | "done_err"
  qStart,      \* client -> the instant query_advertisements was called
  qLog,        \* client -> the I/O results of the task so far, in order
  discovered,  \* client -> the (address, port) pairs the query yields
  inbox,       \* socket -> the datagrams queued on it, in receive order
  injected,    \* datagrams injected by the environment so far
  now,         \* the clock
  deck,        \* Deck: its cards, the first the bottom, the last the top
  hands,       \* the (dealer, opponent) hands dealt so far, in order
  cuts,        \* the cards returned by cut so far, in order
  deckOp,      \* the last operation on the deck, "none" before it is made
  deckOps,     \* operations on the deck so far
  wire         \* a record on its way through the codecs

vars == <<srvPc, srvPending, srvLog, qPc, qStart, qLog, discovered, inbox,
          injected, now, deck, hands, cuts, deckOp, deckOps, wire>>
srvVars == <<srvPc, srvPending, srvLog>>
qVars == <<qPc, qStart, qLog, discovered>>
netVars == <<srvVars, qVars, inbox, injected, now>>
cardVars == <<deck, hands, cuts, deckOp, deckOps>>
auxVars == <<cardVars, wire>>

\* No deck is made.
NoDeck ==
  /\ deck = <<>>
  /\ hands = <<>>
  /\ cuts = <<>>
  /\ deckOp = "none"
  /\ deckOps = 0

\* No record is on its way.
NoWire == wire = [stage |-> "idle"]

NetInit ==
  /\ srvPc = [s \in Servers |-> "recv"]
  /\ srvPending = [s \in Servers |-> <<>>]
  /\ srvLog = [s \in Servers |-> <<>>]
  /\ qPc = [c \in Clients |-> "idle"]
  /\ qStart = [c \in Clients |-> 0]
  /\ qLog = [c \in Clients |-> <<>>]
  /\ discovered = [c \in Clients |-> {}]
  /\ inbox = [k \in Sockets |-> <<>>]
  /\ injected = 0
  /\ now = 0

Init == NetInit /\ NoDeck /\ NoWire

\* The two states of the server of the specification.
Listening(s) == srvPc[s] \in {"recv", "send"}
Terminated(s) == srvPc[s] \in {"done_ok", "done_err"}

\* A socket exists from the start of its task to the task's end.
Open(k) ==
  IF k \in Servers THEN Listening(k) ELSE qPc[k] \in {"send", "recv"}

(***************************************************************************)
(* The network: UDP, so a datagram is delivered or lost.  A datagram to    *)
(* the group reaches any of the open sockets bound to its port; a unicast  *)
(* datagram reaches at most one open socket bound to its address.          *)
(***************************************************************************)
Receivers(to) ==
  IF to = MulticastAddr
    THEN SUBSET {k \in Sockets : Open(k) /\ LocalPort(k) = to.port}
    ELSE {{}} \cup {{k} : k \in {j \in Sockets : Open(j) /\ LocalAddr(j) = to}}

\* The queues after the datagram reached the sockets rcv and the closing
\* sockets (of tasks that end in this step) were released.
Queues(dg, rcv, closing) ==
  [k \in Sockets |->
     IF k \in closing THEN <<>>
     ELSE IF k \in rcv THEN Append(inbox[k], dg)
     ELSE inbox[k]]

Pop(k) == [inbox EXCEPT ![k] = Tail(@)]
Close(k) == [inbox EXCEPT ![k] = <<>>]

(***************************************************************************)
(* serve_advertisement                                                     *)
(***************************************************************************)
\* ServerReply with the comparison turned round: a frame that is a prefix of
\* the marker is answered too.
ServerReplyPrefix(bytes, addr, port) ==
  IF Len(bytes) <= Len(MAGIC_REQUEST) /\ bytes = SubSeq(MAGIC_REQUEST, 1, Len(bytes))
    THEN <<Outgoing(Serialize(MAGIC_RESPONSE, port), addr)>>
    ELSE <<>>

\* ServerReply answering to the group instead of the requester.
ServerReplyMulticast(bytes, addr, port) ==
  IF bytes = MAGIC_REQUEST
    THEN <<Outgoing(Serialize(MAGIC_RESPONSE, port), MulticastAddr)>>
    ELSE <<>>

\* ServerReply carrying the request marker as its magic.
ServerReplyRequestMagic(bytes, addr, port) ==
  IF bytes = MAGIC_REQUEST
    THEN <<Outgoing(Serialize(MAGIC_REQUEST, port), addr)>>
    ELSE <<>>

\* ServerReply repeating the request to the group.
ServerReplyEcho(bytes, addr, port) ==
  IF bytes = MAGIC_REQUEST
    THEN <<Outgoing(bytes, MulticastAddr)>>
    ELSE <<>>

\* What the server hands to tx.send for a frame (bytes, addr): nothing, or
\* the serialised response for the frame's peer address.
ServerReply(bytes, addr, port) ==
  IF bytes = MAGIC_REQUEST
    THEN <<Outgoing(Serialize(MAGIC_RESPONSE, port), addr)>>
    ELSE <<>>

\* ServerAfterRecv polling the stream again without waiting for tx.send.
ServerAfterRecvNoWait(res, reply) ==
  CASE res = "err" -> "done_err"
    [] res = "none" -> "done_ok"
    [] OTHER -> "recv"

\* The task's position after a poll of the framed stream gave res.
ServerAfterRecv(res, reply) ==
  CASE res = "err" -> "done_err"
    [] res = "none" -> "done_ok"
    [] OTHER -> IF reply = <<>> THEN "recv" ELSE "send"

\* The task's position after tx.send failed.
ServerAfterSendError == "done_err"

\* rx.into_future() resolves with the next datagram of the socket.
ServerRecv(s) ==
  /\ srvPc[s] = "recv"
  /\ inbox[s] # <<>>
  /\ LET d == Head(inbox[s])
         f == FrameDecode(d.data)
         reply == IF f.res = "some"
                    THEN ServerReply(f.data, d.from, ServicePort(s))
                    ELSE <<>>
         pc == ServerAfterRecv(f.res, reply)
     IN /\ srvPc' = [srvPc EXCEPT ![s] = pc]
        /\ srvPending' = [srvPending EXCEPT ![s] = reply]
        /\ srvLog' = [srvLog EXCEPT ![s] =
             Append(@, Event(CASE f.res = "err" -> "frame_err"
                               [] f.res = "none" -> "eos"
                               [] OTHER -> "frame", f.data, d.from))]
        /\ inbox' = IF pc \in {"done_ok", "done_err"} THEN Close(s) ELSE Pop(s)
  /\ UNCHANGED <<auxVars, qVars, injected, now>>

\* rx.into_future() resolves with an I/O error of the socket.
ServerRecvError(s) ==
  /\ srvPc[s] = "recv"
  /\ srvPc' = [srvPc EXCEPT ![s] = "done_err"]
  /\ srvLog' = [srvLog EXCEPT ![s] = Append(@, Event("recv_err", <<>>, NoAddr))]
  /\ inbox' = Close(s)
  /\ UNCHANGED <<auxVars, srvPending, qVars, injected, now>>

\* tx.send((rsp, addr)) resolves: the framed response left the socket.
ServerSendOk(s) ==
  /\ srvPc[s] = "send"
  /\ LET out == srvPending[s][1] IN
       /\ srvLog' = [srvLog EXCEPT ![s] = Append(@, Event("sent", out.data, out.to))]
       /\ \E rcv \in Receivers(out.to) :
            inbox' = Queues(Datagram(FrameEncode(out.data), LocalAddr(s)), rcv, {})
  /\ srvPc' = [srvPc EXCEPT ![s] = "recv"]
  /\ srvPending' = [srvPending EXCEPT ![s] = <<>>]
  /\ UNCHANGED <<auxVars, qVars, injected, now>>

\* tx.send((rsp, addr)) resolves with an I/O error.
ServerSendError(s) ==
  /\ srvPc[s] = "send"
  /\ LET pc == ServerAfterSendError IN
       /\ srvPc' = [srvPc EXCEPT ![s] = pc]
       /\ srvPending' = [srvPending EXCEPT ![s] = IF pc = "send" THEN @ ELSE <<>>]
       /\ inbox' = IF pc \in {"done_ok", "done_err"} THEN Close(s) ELSE inbox
  /\ srvLog' = [srvLog EXCEPT ![s] =
       Append(@, Event("send_err", srvPending[s][1].data, srvPending[s][1].to))]
  /\ UNCHANGED <<auxVars, qVars, injected, now>>

(***************************************************************************)
(* query_advertisements                                                    *)
(***************************************************************************)
\* QueryAfterSendError with the error swallowed: the receive loop starts.
QueryAfterSendErrorSwallowed == "recv"

\* The task's position after the send of the request failed: map_err(drop)
\* fails the whole future and the and_then closure never runs.
QueryAfterSendError == "done_err"

\* The task's position after a poll of the framed stream gave res.
QueryAfterRecv(res) ==
  CASE res = "err" -> "done_err"
    [] res = "none" -> "done_ok"
    [] OTHER -> "recv"

\* QueryResults keeping every record that deserialises, whatever its magic.
QueryResultsAnyMagic(found, bytes, addr) ==
  IF Deserialize(bytes).ok
    THEN found \cup {<<addr, Deserialize(bytes).port>>}
    ELSE found

\* The pairs the query yields after the frame (bytes, addr): the record is
\* deserialised and dropped, as is the error when it does not deserialise.
QueryResults(found, bytes, addr) == found

\* query_advertisements() is called: the socket is bound.
QueryStart(c) ==
  /\ qPc[c] = "idle"
  /\ qPc' = [qPc EXCEPT ![c] = "send"]
  /\ qStart' = [qStart EXCEPT ![c] = now]
  /\ UNCHANGED <<auxVars, srvVars, qLog, discovered, inbox, injected, now>>

\* QueryRequest addressed to the group at the query's own port.
QueryRequestOwnPort == Outgoing(MAGIC_REQUEST, Addr(IP_MULTICAST, QUERY_PORT))

\* What the query hands to tx.send: the request marker, for the group.
QueryRequest == Outgoing(MAGIC_REQUEST, MulticastAddr)

\* tx.send((MAGIC_REQUEST, multicast_addr)) resolves: the request left.
QuerySendOk(c) ==
  /\ qPc[c] = "send"
  /\ qPc' = [qPc EXCEPT ![c] = "recv"]
  /\ qLog' = [qLog EXCEPT ![c] =
       Append(@, Event("sent", QueryRequest.data, QueryRequest.to))]
  /\ \E rcv \in Receivers(QueryRequest.to) :
       inbox' = Queues(Datagram(FrameEncode(QueryRequest.data), LocalAddr(c)), rcv, {})
  /\ UNCHANGED <<auxVars, srvVars, qStart, discovered, injected, now>>

\* tx.send((MAGIC_REQUEST, multicast_addr)) resolves with an I/O error.
QuerySendError(c) ==
  /\ qPc[c] = "send"
  /\ LET pc == QueryAfterSendError IN
       /\ qPc' = [qPc EXCEPT ![c] = pc]
       /\ inbox' = IF pc \in {"done_ok", "done_err"} THEN Close(c) ELSE inbox
  /\ qLog' = [qLog EXCEPT ![c] = Append(@, Event("send_err", MAGIC_REQUEST, MulticastAddr))]
  /\ UNCHANGED <<auxVars, srvVars, qStart, discovered, injected, now>>

\* rx.into_future() resolves with the next datagram of the socket.
QueryRecv(c) ==
  /\ qPc[c] = "recv"
  /\ inbox[c] # <<>>
  /\ LET d == Head(inbox[c])
         f == FrameDecode(d.data)
         pc == QueryAfterRecv(f.res)
     IN /\ qPc' = [qPc EXCEPT ![c] = pc]
        /\ qLog' = [qLog EXCEPT ![c] =
             Append(@, Event(CASE f.res = "err" -> "frame_err"
                               [] f.res = "none" -> "eos"
                               [] OTHER -> "frame", f.data, d.from))]
        /\ discovered' = [discovered EXCEPT ![c] =
             IF f.res = "some" THEN QueryResults(@, f.data, d.from) ELSE @]
        /\ inbox' = IF pc \in {"done_ok", "done_err"} THEN Close(c) ELSE Pop(c)
  /\ UNCHANGED <<auxVars, srvVars, qStart, injected, now>>

\* rx.into_future() resolves with an I/O error of the socket.
QueryRecvError(c) ==
  /\ qPc[c] = "recv"
  /\ qPc' = [qPc EXCEPT ![c] = "done_err"]
  /\ qLog' = [qLog EXCEPT ![c] = Append(@, Event("recv_err", <<>>, NoAddr))]
  /\ inbox' = Close(c)
  /\ UNCHANGED <<auxVars, srvVars, qStart, discovered, injected, now>>

(***************************************************************************)
(* The environment: other senders on the segment, and time.                *)
(***************************************************************************)
RequestFrame == FrameEncode(MAGIC_REQUEST)
ResponseFrame(port) == FrameEncode(Serialize(MAGIC_RESPONSE, port))

\* Too few bytes for a length head.
ShortHead == <<0, 0>>
\* A head that announces 16 MiB.
LongHead == <<1, 0, 0, 0>>

\* What a stranger may send to a server's socket.
ServerNoise ==
  { RequestFrame,
    RequestFrame \o <<0>>,
    FrameEncode(MAGIC_RESPONSE),
    FrameEncode(SubSeq(MAGIC_REQUEST, 1, Len(MAGIC_REQUEST) - 1)),
    ResponseFrame(4001),
    SubSeq(RequestFrame, 1, Len(RequestFrame) - 1),
    ShortHead,
    LongHead }

\* What anyone but a server of the model may send to a client's socket.
ClientNoise ==
  { ResponseFrame(4001),
    ResponseFrame(4002),
    FrameEncode(Serialize(MAGIC_REQUEST, 4001)),
    RequestFrame,
    SubSeq(ResponseFrame(4001), 1, Len(ResponseFrame(4001)) - 1),
    LongHead }

\* A stranger's datagram is queued on a server's socket.
InjectServer(s, data, from) ==
  /\ injected < MaxInject
  /\ Listening(s)
  /\ inbox' = [inbox EXCEPT ![s] = Append(@, Datagram(data, from))]
  /\ injected' = injected + 1
  /\ UNCHANGED <<auxVars, srvVars, qVars, now>>

\* A datagram of the environment is queued on a client's socket.
InjectClient(c, data, from) ==
  /\ injected < MaxInject
  /\ qPc[c] \in {"send", "recv"}
  /\ inbox' = [inbox EXCEPT ![c] = Append(@, Datagram(data, from))]
  /\ injected' = injected + 1
  /\ UNCHANGED <<auxVars, srvVars, qVars, now>>

Tick ==
  /\ now < MaxTime
  /\ now' = now + 1
  /\ UNCHANGED <<auxVars, srvVars, qVars, inbox, injected>>

(***************************************************************************)
(* Specifications.                                                         *)
(***************************************************************************)
ServerStep ==
  \E s \in Servers :
    \/ ServerRecv(s)
    \/ ServerRecvError(s)
    \/ ServerSendOk(s)
    \/ ServerSendError(s)

QueryStep ==
  \E c \in Clients :
    \/ QueryStart(c)
    \/ QuerySendOk(c)
    \/ QuerySendError(c)
    \/ QueryRecv(c)
    \/ QueryRecvError(c)

\* The closed system: the servers and the queries on one segment.
Next == ServerStep \/ QueryStep
Spec == Init /\ [][Next]_vars

\* One server facing arbitrary senders: a query's host and a stranger.
ServeSenders == {LocalAddr("c1"), Addr(<<10, 0, 0, 9>>, 40000)}
ServeEnv ==
  \E data \in ServerNoise, from \in ServeSenders :
    InjectServer("s1", data, from)
NextServe ==
  \/ ServerRecv("s1")
  \/ ServerRecvError("s1")
  \/ ServerSendOk("s1")
  \/ ServerSendError("s1")
  \/ ServeEnv
SpecServe == Init /\ [][NextServe]_vars

\* One query facing arbitrary senders: a server's host and a stranger.
QuerySenders == {LocalAddr("s1"), Addr(<<10, 0, 0, 9>>, 40000)}
QueryEnv ==
  \E data \in ClientNoise, from \in QuerySenders :
    InjectClient("c1", data, from)
NextQuery ==
  \/ QueryStart("c1")
  \/ QuerySendOk("c1")
  \/ QuerySendError("c1")
  \/ QueryRecv("c1")
  \/ QueryRecvError("c1")
  \/ QueryEnv
SpecQuery == Init /\ [][NextQuery]_vars

\* One query with the clock running, the environment playing the servers.
ClockEnv ==
  \E s \in Servers :
    InjectClient("c1", ResponseFrame(ServicePort(s)), LocalAddr(s))
NextClock ==
  \/ QueryStart("c1")
  \/ QuerySendOk("c1")
  \/ QuerySendError("c1")
  \/ QueryRecv("c1")
  \/ QueryRecvError("c1")
  \/ ClockEnv
  \/ Tick
SpecClock == Init /\ [][NextClock]_vars

(***************************************************************************)
(* Reading the logs.                                                       *)
(***************************************************************************)
IsRequest(e) == e.ev = "frame" /\ e.data = MAGIC_REQUEST
IsReplyAttempt(e) == e.ev \in {"sent", "send_err"}
\* A datagram the framing refused: an incomplete or an over-long frame.
IsBadFraming(e) == e.ev \in {"eos", "frame_err"}
\* A frame that is a Response carrying the response constant.
IsResponse(e) ==
  /\ e.ev = "frame"
  /\ Deserialize(e.data).ok
  /\ Deserialize(e.data).magic = MAGIC_RESPONSE
\* A frame that has the shape {magic, port} with another magic.
IsOtherMagic(e) ==
  /\ e.ev = "frame"
  /\ Deserialize(e.data).ok
  /\ Deserialize(e.data).magic # MAGIC_RESPONSE

Events(log) == {log[i] : i \in 1..Len(log)}
\* The hosts a query's log announces.
ValidResponses(log) ==
  {<<e.addr, Deserialize(e.data).port>> : e \in {x \in Events(log) : IsResponse(x)}}

(***************************************************************************)
(* C1  Marker rejection.  Every reply the server attempts comes right      *)
(* after a frame whose payload is exactly MAGIC_REQUEST, and a reply is    *)
(* pending only when the last frame received is such a frame: after any    *)
(* other frame nothing is sent.                                            *)
(***************************************************************************)
C1_MarkerRejection ==
  \A s \in Servers :
    /\ \A i \in 1..Len(srvLog[s]) :
         IsReplyAttempt(srvLog[s][i]) => i > 1 /\ IsRequest(srvLog[s][i - 1])
    /\ srvPc[s] = "send" =>
         /\ srvLog[s] # <<>>
         /\ IsRequest(srvLog[s][Len(srvLog[s])])
         /\ Len(srvPending[s]) = 1

\* The server discarded a frame that is not the request and answered a request.
C1_Witness ==
  \E i, j \in 1..Len(srvLog["s1"]) :
    /\ srvLog["s1"][i].ev = "frame" /\ ~IsRequest(srvLog["s1"][i])
    /\ i < j /\ srvLog["s1"][j].ev = "sent"

(***************************************************************************)
(* C2  Reply targeting.  Every response sent, and the response pending,    *)
(* is addressed to the peer address of the request received just before    *)
(* it, which is never the group address.                                   *)
(***************************************************************************)
C2_ReplyTargeting ==
  \A s \in Servers :
    /\ \A i \in 1..Len(srvLog[s]) :
         IsReplyAttempt(srvLog[s][i]) =>
           /\ i > 1
           /\ srvLog[s][i].addr = srvLog[s][i - 1].addr
           /\ srvLog[s][i].addr # MulticastAddr
    /\ srvPc[s] = "send" =>
         /\ srvLog[s] # <<>>
         /\ srvPending[s] # <<>>
         /\ srvPending[s][1].to = srvLog[s][Len(srvLog[s])].addr
         /\ srvPending[s][1].to # MulticastAddr

\* The server answered two requests from two different peers.
C2_Witness ==
  \E i, j \in 1..Len(srvLog["s1"]) :
    /\ srvLog["s1"][i].ev = "sent" /\ srvLog["s1"][j].ev = "sent"
    /\ srvLog["s1"][i].addr # srvLog["s1"][j].addr

(***************************************************************************)
(* C3  Bounded termination, as the claim states it: a query that is still  *)
(* in its receive loop is within QueryBudget ticks (timeout plus slack)    *)
(* of its start.                                                           *)
(***************************************************************************)
QueryBudget == 2

C3_BoundedTermination ==
  \A c \in Clients :
    qPc[c] = "recv" => now <= qStart[c] + QueryBudget

(***************************************************************************)
(* C4  Multi-responder aggregation, as the claim states it: a query that   *)
(* received the Response of every server yields exactly one pair per       *)
(* server, with the server's address and port.                             *)
(***************************************************************************)
HeardFrom(c, s) ==
  \E e \in Events(qLog[c]) :
    /\ IsResponse(e)
    /\ e.addr = LocalAddr(s)
    /\ Deserialize(e.data).port = ServicePort(s)

C4_Aggregation ==
  \A c \in Clients :
    (\A s \in Servers : HeardFrom(c, s)) =>
      discovered[c] = {<<LocalAddr(s), ServicePort(s)>> : s \in Servers}

(***************************************************************************)
(* C5  Server survives receive errors, as the claim states it: a server    *)
(* whose receive failed with a transport error is Listening.               *)
(***************************************************************************)
C5_SurvivesRecvError ==
  \A s \in Servers :
    (\E e \in Events(srvLog[s]) : e.ev = "recv_err") => Listening(s)

(***************************************************************************)
(* C6  Server survives send errors, as the claim states it: a server       *)
(* whose send of a Response failed is Listening.                           *)
(***************************************************************************)
C6_SurvivesSendError ==
  \A s \in Servers :
    (\E e \in Events(srvLog[s]) : e.ev = "send_err") => Listening(s)

(***************************************************************************)
(* C7  Server survives invalid frames, as the claim states it: a server    *)
(* that has received only datagrams that fail framing or frames that are   *)
(* not the request is Listening and has sent nothing.                      *)
(***************************************************************************)
C7_SurvivesInvalidFrames ==
  \A s \in Servers :
    (/\ srvLog[s] # <<>>
     /\ \A e \in Events(srvLog[s]) :
          IsBadFraming(e) \/ (e.ev = "frame" /\ ~IsRequest(e)))
    => srvPc[s] = "recv"

(***************************************************************************)
(* C8  Client garbage tolerance, as the claim states it: a query that      *)
(* received a datagram with bad framing is still receiving, and what a     *)
(* query yields is exactly the valid Responses it received.                *)
(***************************************************************************)
C8_GarbageTolerance ==
  \A c \in Clients :
    /\ (/\ qLog[c] # <<>>
        /\ IsBadFraming(qLog[c][Len(qLog[c])])) => qPc[c] = "recv"
    /\ discovered[c] = ValidResponses(qLog[c])

(***************************************************************************)
(* C9  Client marker check.  Every pair a query yields comes from a frame  *)
(* it received that deserialises to a record whose magic is                *)
(* MAGIC_RESPONSE, with that frame's peer address and port; a record with  *)
(* another magic yields nothing.                                           *)
(***************************************************************************)
C9_MarkerCheck ==
  \A c \in Clients : discovered[c] \subseteq ValidResponses(qLog[c])

\* The query received a well-formed record with another magic, and no
\* Response from that sender with that port.
C9_Witness ==
  \E e \in Events(qLog["c1"]) :
    /\ IsOtherMagic(e)
    /\ <<e.addr, Deserialize(e.data).port>> \notin ValidResponses(qLog["c1"])
    /\ <<e.addr, Deserialize(e.data).port>> \notin discovered["c1"]

(***************************************************************************)
(* C10  Query send failure is reported.  A query whose send of the request *)
(* failed has ended with the error outcome, which is not the outcome of a  *)
(* query that ended normally, and it has polled the socket for no frame:   *)
(* the failed send is the only entry of its log.                           *)
(***************************************************************************)
C10_SendFailureReported ==
  \A c \in Clients :
    (\E e \in Events(qLog[c]) : e.ev = "send_err") =>
      /\ qPc[c] = "done_err"
      /\ qPc[c] # "done_ok"
      /\ Len(qLog[c]) = 1

\* The send of the request failed while a datagram was waiting on the socket.
C10_Witness ==
  /\ qLog["c1"] # <<>>
  /\ qLog["c1"][1].ev = "send_err"
  /\ injected > 0

(***************************************************************************)
(* C11  Timeout is success, as the claim states it: once the deadline of   *)
(* a query that sent its request has elapsed and no transport error        *)
(* occurred, the query has completed with the normal outcome and its       *)
(* socket is released.                                                     *)
(***************************************************************************)
IsTransportError(e) == e.ev \in {"recv_err", "send_err"}

C11_TimeoutIsSuccess ==
  \A c \in Clients :
    (/\ qLog[c] # <<>>
     /\ qLog[c][1].ev = "sent"
     /\ now > qStart[c] + QueryBudget
     /\ \A e \in Events(qLog[c]) : ~IsTransportError(e))
    => (qPc[c] = "done_ok" /\ ~Open(c))

(***************************************************************************)
(* C12  Server never stops on its own, as the claim states it: a serve     *)
(* task that has completed has completed on a failure of its socket, the   *)
(* last entry of its log; no datagram and no end of the framed stream      *)
(* completes it.                                                           *)
(***************************************************************************)
C12_NeverStopsOnItsOwn ==
  \A s \in Servers :
    /\ Listening(s) \/ Terminated(s)
    /\ Terminated(s) =>
         /\ srvLog[s] # <<>>
         /\ IsTransportError(srvLog[s][Len(srvLog[s])])

(***************************************************************************)
(* C13  One reply per request, stateless.  While no send has failed, the   *)
(* Responses a server has sent, plus the one handed to tx.send and not     *)
(* yet out, are as many as the frames equal to MAGIC_REQUEST it has        *)
(* received, duplicates included; and every Response sent or pending       *)
(* deserialises to magic MAGIC_RESPONSE and the port given to              *)
(* serve_advertisement.                                                    *)
(***************************************************************************)
IsSent(e) == e.ev = "sent"
CountOf(log, ev) == Cardinality({i \in 1..Len(log) : log[i].ev = ev})
Requests(log) == SelectSeq(log, IsRequest)

IsAdvertisement(bytes, port) ==
  /\ Deserialize(bytes).ok
  /\ Deserialize(bytes).magic = MAGIC_RESPONSE
  /\ Deserialize(bytes).port = port

C13_OneReplyPerRequest ==
  \A s \in Servers :
    /\ CountOf(srvLog[s], "send_err") = 0 =>
         CountOf(srvLog[s], "sent") + Len(srvPending[s]) = Len(Requests(srvLog[s]))
    /\ \A e \in Events(srvLog[s]) :
         IsSent(e) => IsAdvertisement(e.data, ServicePort(s))
    /\ \A i \in 1..Len(srvPending[s]) :
         IsAdvertisement(srvPending[s][i].data, ServicePort(s))

\* The server answered the same peer twice, after a frame it discarded.
C13_Witness ==
  /\ srvPc["s1"] = "recv"
  /\ \E i, j, k \in 1..Len(srvLog["s1"]) :
       /\ i < j /\ j < k
       /\ srvLog["s1"][i].ev = "frame" /\ ~IsRequest(srvLog["s1"][i])
       /\ IsSent(srvLog["s1"][j]) /\ IsSent(srvLog["s1"][k])
       /\ srvLog["s1"][j].addr = srvLog["s1"][k].addr

(***************************************************************************)
(* C14  Single request, then receive only.  The only send of a query is    *)
(* the first entry of its log; when it succeeded it is MAGIC_REQUEST for   *)
(* 229.29.29.29:29999; and a query has received something, or ended        *)
(* normally, only after that send.                                         *)
(***************************************************************************)
IsReceive(e) == e.ev \in {"frame", "eos", "frame_err", "recv_err"}

C14_SingleRequest ==
  \A c \in Clients :
    /\ \A i \in 1..Len(qLog[c]) :
         /\ IsReplyAttempt(qLog[c][i]) => i = 1
         /\ IsSent(qLog[c][i]) =>
              /\ qLog[c][i].data = MAGIC_REQUEST
              /\ qLog[c][i].addr = Addr(<<229, 29, 29, 29>>, 29999)
         /\ IsReceive(qLog[c][i]) => (i > 1 /\ IsSent(qLog[c][1]))
    /\ qPc[c] \in {"recv", "done_ok"} =>
         (qLog[c] # <<>> /\ IsSent(qLog[c][1]))

\* The query sent its request and then received two frames.
C14_Witness ==
  /\ Len(qLog["c1"]) >= 3
  /\ IsSent(qLog["c1"][1])
  /\ qLog["c1"][2].ev = "frame"
  /\ qLog["c1"][3].ev = "frame"
  /\ qPc["c1"] = "recv"

(***************************************************************************)
(* C17  Server ordering.  Every request in a server's log is followed      *)
(* at once by the attempt to answer it, to the request's peer address,     *)
(* or is the last entry while its Response is pending: no receive starts   *)
(* in between.  So the addresses of the Responses sent are, in order,      *)
(* those of the first requests received.                                   *)
(***************************************************************************)
AddrsOf(log) == [i \in 1..Len(log) |-> log[i].addr]

C17_ServerOrdering ==
  \A s \in Servers :
    /\ \A i \in 1..Len(srvLog[s]) :
         IsRequest(srvLog[s][i]) =>
           IF i < Len(srvLog[s])
             THEN /\ IsReplyAttempt(srvLog[s][i + 1])
                  /\ srvLog[s][i + 1].addr = srvLog[s][i].addr
             ELSE /\ srvPc[s] = "send"
                  /\ srvPending[s] # <<>>
    /\ LET sent == AddrsOf(SelectSeq(srvLog[s], IsSent))
           asked == AddrsOf(Requests(srvLog[s]))
       IN /\ Len(sent) <= Len(asked)
          /\ sent = SubSeq(asked, 1, Len(sent))

\* A Response is pending while the request of another peer waits on the
\* socket, after an earlier request was answered.
C17_Witness ==
  /\ srvPc["s1"] = "send"
  /\ \E e \in Events(srvLog["s1"]) : IsSent(e)
  /\ inbox["s1"] # <<>>
  /\ FrameDecode(Head(inbox["s1"]).data).res = "some"
  /\ FrameDecode(Head(inbox["s1"]).data).data = MAGIC_REQUEST
  /\ Head(inbox["s1"]).from # srvPending["s1"][1].to

(***************************************************************************)
(* C18  Independent sockets, as the claim states it: two sockets open at   *)
(* the same time on one host have different local addresses, and a query   *)
(* receives from a server no more Responses than the one its own request   *)
(* triggered.                                                              *)
(***************************************************************************)
ResponsesFrom(c, s) ==
  {i \in 1..Len(qLog[c]) : IsResponse(qLog[c][i]) /\ qLog[c][i].addr = LocalAddr(s)}

C18_IndependentSockets ==
  /\ \A j, k \in Sockets :
       (j # k /\ Open(j) /\ Open(k) /\ Host(j) = Host(k)) =>
         LocalAddr(j) # LocalAddr(k)
  /\ \A c \in Clients, s \in Servers : Cardinality(ResponsesFrom(c, s)) <= 1

(***************************************************************************)
(* C20  No amplification.  On a segment of servers and queries only, the   *)
(* Responses sent or pending are at most (servers) x (requests sent by     *)
(* queries), each server's share is at most the requests sent, a query     *)
(* sends at most once, and no server receives a frame sent by a server.    *)
(***************************************************************************)
RequestsSent ==
  Cardinality({<<c, i>> \in Clients \X (1..2) :
                 i <= Len(qLog[c]) /\ IsSent(qLog[c][i])})
RepliesOf(s) == CountOf(srvLog[s], "sent") + Len(srvPending[s])
RECURSIVE SumReplies(_)
SumReplies(S) ==
  IF S = {} THEN 0
  ELSE LET s == CHOOSE x \in S : TRUE IN RepliesOf(s) + SumReplies(S \ {s})

C20_NoAmplification ==
  /\ SumReplies(Servers) <= Cardinality(Servers) * RequestsSent
  /\ \A s \in Servers : RepliesOf(s) <= RequestsSent
  /\ \A c \in Clients : CountOf(qLog[c], "sent") <= 1
  /\ \A s \in Servers : \A e \in Events(srvLog[s]) :
       e.ev = "frame" => e.addr \notin {LocalAddr(x) : x \in Servers}

\* Both queries were answered by both servers: the bound is reached.
C20_Witness ==
  /\ RequestsSent = Cardinality(Clients)
  /\ \A s \in Servers : CountOf(srvLog[s], "sent") = RequestsSent
  /\ \A s \in Servers : srvPc[s] = "recv" /\ inbox[s] = <<>>

(***************************************************************************)
(* The wire: one record taken through the codecs as the two tasks apply    *)
(* them.  A Request is the marker itself, a Response the bincode of        *)
(* AdvertisementResponse; the sender's sink frames the payload, the        *)
(* receiver's stream takes the frame out of the datagram, and then the     *)
(* server compares the payload with the marker, the query deserialises it. *)
(***************************************************************************)
WirePorts ==
  (0..MaxLowPort) \cup {255, 256, 257, 4001, 4002, 4003, 29999, 32767, 32768,
                        65280, 65534, 65535}

WireRecord(stage, shape, port, bytes, out) ==
  [stage |-> stage, shape |-> shape, port |-> port, bytes |-> bytes, out |-> out]

\* The records to encode: the Request, and a Response for each port.
WireInputs ==
  {WireRecord("record", "request", 0, <<>>, <<>>)}
    \cup {WireRecord("record", "response", p, <<>>, <<>>) : p \in WirePorts}

\* The payload the sender builds.
WirePayload(shape, port) ==
  IF shape = "request" THEN QueryRequest.data ELSE Serialize(MAGIC_RESPONSE, port)

\* What the receiver makes of a payload: the server, whether it answers;
\* the query, the record it deserialises.
WireDecoded(shape, bytes, port) ==
  IF shape = "request"
    THEN [ok |-> ServerReply(bytes, NoAddr, port) # <<>>, magic |-> bytes, port |-> port]
    ELSE Deserialize(bytes)

WireSerialize ==
  /\ wire.stage = "record"
  /\ wire' = [wire EXCEPT !.stage = "payload",
                          !.bytes = WirePayload(wire.shape, wire.port)]
  /\ UNCHANGED <<netVars, cardVars>>

WireSend ==
  /\ wire.stage = "payload"
  /\ wire' = [wire EXCEPT !.stage = "datagram", !.bytes = FrameEncode(@)]
  /\ UNCHANGED <<netVars, cardVars>>

WireRecv ==
  /\ wire.stage = "datagram"
  /\ LET f == FrameDecode(wire.bytes) IN
       wire' = [wire EXCEPT !.stage = IF f.res = "some" THEN "frame" ELSE "lost",
                            !.bytes = f.data]
  /\ UNCHANGED <<netVars, cardVars>>

WireDecode ==
  /\ wire.stage = "frame"
  /\ wire' = [wire EXCEPT !.stage = "decoded",
                          !.out = WireDecoded(wire.shape, wire.bytes, wire.port)]
  /\ UNCHANGED <<netVars, cardVars>>

InitWire == NetInit /\ NoDeck /\ wire \in WireInputs
NextWire == WireSerialize \/ WireSend \/ WireRecv \/ WireDecode
SpecWire == InitWire /\ [][NextWire]_vars

(***************************************************************************)
(* C15  Wire round-trip.  A record that went through the sender's          *)
(* encoding and the receiver's decoding is never lost in the framing, and  *)
(* comes out as it went in: the Request is recognised by the server as a   *)
(* Request, a Response gives the query MAGIC_RESPONSE and the port it was  *)
(* built with.                                                             *)
(***************************************************************************)
C15_WireRoundTrip ==
  /\ wire.stage # "lost"
  /\ wire.stage = "decoded" =>
       /\ wire.out.ok
       /\ wire.shape = "request" => wire.out.magic = MAGIC_REQUEST
       /\ wire.shape = "response" =>
            /\ wire.out.magic = MAGIC_RESPONSE
            /\ wire.out.port = wire.port

\* A Response with a port of two different bytes arrived at the query.
C15_Witness ==
  /\ wire.stage = "decoded"
  /\ wire.shape = "response"
  /\ wire.port = 4001
  /\ wire.out.port = 4001

(***************************************************************************)
(* Cards and the deck (src/src/card.rs).  A Deck is a list of cards, the   *)
(* first the bottom and the last the top.                                  *)
(***************************************************************************)
SUITS == <<"Spade", "Heart", "Diamond", "Club">>
RANKS == <<"Ace", "Two", "Three", "Four", "Five", "Six", "Seven", "Eight",
           "Nine", "Ten", "Jack", "Queen", "King">>

Card(suit, rank) == [suit |-> suit, rank |-> rank]

\* The inner loop of new_sorted: the ranks of one suit, from RANKS[r] on.
RECURSIVE PushRanks(_, _, _)
PushRanks(cards, suit, r) ==
  IF r > Len(RANKS) THEN cards
  ELSE PushRanks(Append(cards, Card(suit, RANKS[r])), suit, r + 1)

\* The outer loop of new_sorted: the suits from SUITS[s] on.
RECURSIVE PushSuits(_, _)
PushSuits(cards, s) ==
  IF s > Len(SUITS) THEN cards
  ELSE PushSuits(PushRanks(cards, SUITS[s], 1), s + 1)

\* new_sorted with the loops exchanged: rank by rank, the suits of each.
RECURSIVE PushRankMajor(_, _, _)
PushRankMajor(cards, r, s) ==
  IF r > Len(RANKS) THEN cards
  ELSE IF s > Len(SUITS) THEN PushRankMajor(cards, r + 1, 1)
  ELSE PushRankMajor(Append(cards, Card(SUITS[s], RANKS[r])), r, s + 1)
NewSortedRankMajor == PushRankMajor(<<>>, 1, 1)

\* Deck::new_sorted()
NewSorted == PushSuits(<<>>, 1)

(***************************************************************************)
(* The random generator handed to shuffle and cut is an input.  A          *)
(* generator is one of three rules for gen_range(0, n), k its draw number: *)
(* always the lowest value, always the highest, or a value that moves      *)
(* with k.                                                                 *)
(***************************************************************************)
Rngs == {"low", "high", "mixed"}
GenRange(rng, k, n) ==
  CASE rng = "low" -> 0
    [] rng = "high" -> n - 1
    [] OTHER -> (7 * k + 3) % n

\* slice.swap(i, j), on positions counted from 0.
Swap(cards, i, j) ==
  [cards EXCEPT ![i + 1] = cards[j + 1], ![j + 1] = cards[i + 1]]

\* SliceRandom::shuffle: for i in (1..len).rev() { swap(i, gen_range(0, i + 1)) }
RECURSIVE ShuffleFrom(_, _, _)
ShuffleFrom(cards, i, rng) ==
  IF i < 1 THEN cards
  ELSE ShuffleFrom(Swap(cards, i, GenRange(rng, Len(cards) - i, i + 1)), i - 1, rng)

\* Deck::shuffle(rng)
Shuffle(cards, rng) == ShuffleFrom(cards, Len(cards) - 1, rng)

\* The capacity deal gives each hand, and the cards it pops for each.
HAND_SIZE == 6

\* The pops of deal, from pop number k on: the odd pops go to the
\* opponent, the even ones to the dealer.  A pop from an empty deck panics.
RECURSIVE DealFrom(_, _, _, _)
DealFrom(cards, dealer, opponent, k) ==
  IF k > 2 * HAND_SIZE
    THEN [deck |-> cards, dealer |-> dealer, opponent |-> opponent, panic |-> FALSE]
  ELSE IF cards = <<>>
    THEN [deck |-> cards, dealer |-> dealer, opponent |-> opponent, panic |-> TRUE]
  ELSE LET top == cards[Len(cards)]
           rest == SubSeq(cards, 1, Len(cards) - 1)
       IN IF k % 2 = 1
            THEN DealFrom(rest, dealer, Append(opponent, top), k + 1)
            ELSE DealFrom(rest, Append(dealer, top), opponent, k + 1)

\* Deal giving the first card to the dealer.
DealDealerFirst(cards) ==
  LET d == DealFrom(cards, <<>>, <<>>, 1)
  IN [d EXCEPT !.dealer = d.opponent, !.opponent = d.dealer]

\* Deck::deal(): the deck left and the hands (dealer, opponent).
Deal(cards) == DealFrom(cards, <<>>, <<>>, 1)

\* Vec::remove(index), index counted from 0.
Remove(cards, index) ==
  SubSeq(cards, 1, index) \o SubSeq(cards, index + 2, Len(cards))

\* Deck::cut(rng): the card returned and the deck left.
Cut(cards, rng) ==
  LET index == GenRange(rng, 0, Len(cards))
  IN [card |-> cards[index + 1], deck |-> Remove(cards, index)]

NewSortedDeck ==
  /\ deckOp = "none"
  /\ deck' = NewSorted
  /\ deckOp' = "new_sorted"
  /\ UNCHANGED <<netVars, wire, hands, cuts, deckOps>>

\* Deck::new_shuffled(rng)
NewShuffledDeck(rng) ==
  /\ deckOp = "none"
  /\ deck' = Shuffle(NewSorted, rng)
  /\ deckOp' = "new_shuffled"
  /\ UNCHANGED <<netVars, wire, hands, cuts, deckOps>>

DeckInUse == deckOp \notin {"none", "panic"} /\ deckOps < MaxDeckOps

ShuffleDeck(rng) ==
  /\ DeckInUse
  /\ deck' = Shuffle(deck, rng)
  /\ deckOp' = "shuffle"
  /\ deckOps' = deckOps + 1
  /\ UNCHANGED <<netVars, wire, hands, cuts>>

\* deal() returns.
DealHands ==
  /\ DeckInUse
  /\ ~Deal(deck).panic
  /\ deck' = Deal(deck).deck
  /\ hands' = Append(hands, [dealer |-> Deal(deck).dealer,
                            opponent |-> Deal(deck).opponent])
  /\ deckOp' = "deal"
  /\ deckOps' = deckOps + 1
  /\ UNCHANGED <<netVars, wire, cuts>>

\* deal() panics on a deck of fewer than 12 cards: the cards popped are
\* dropped with the unfinished hands.
DealPanics ==
  /\ DeckInUse
  /\ Deal(deck).panic
  /\ deck' = Deal(deck).deck
  /\ deckOp' = "panic"
  /\ deckOps' = deckOps + 1
  /\ UNCHANGED <<netVars, wire, hands, cuts>>

\* cut(rng) returns (gen_range(0, 0) panics on an empty deck).
CutDeck(rng) ==
  /\ DeckInUse
  /\ deck # <<>>
  /\ deck' = Cut(deck, rng).deck
  /\ cuts' = Append(cuts, Cut(deck, rng).card)
  /\ deckOp' = "cut"
  /\ deckOps' = deckOps + 1
  /\ UNCHANGED <<netVars, wire, hands>>

InitCards == NetInit /\ NoWire /\ NoDeck
NextCards ==
  \/ NewSortedDeck
  \/ \E rng \in Rngs : NewShuffledDeck(rng)
  \/ \E rng \in Rngs : ShuffleDeck(rng)
  \/ DealHands
  \/ DealPanics
  \/ \E rng \in Rngs : CutDeck(rng)
SpecCards == InitCards /\ [][NextCards]_vars

(***************************************************************************)
(* C16  Deck::new_sorted returns 52 pairwise different cards, one for      *)
(* each suit and rank, suit by suit in the order Spade, Heart, Diamond,    *)
(* Club and within a suit from Ace up to King, the Ace of Spades first     *)
(* (the bottom).                                                           *)
(***************************************************************************)
SortedSuits == <<"Spade", "Heart", "Diamond", "Club">>
SortedRanks == <<"Ace", "Two", "Three", "Four", "Five", "Six", "Seven",
                 "Eight", "Nine", "Ten", "Jack", "Queen", "King">>
AllCards == {[suit |-> s, rank |-> r] : s \in {"Spade", "Heart", "Diamond", "Club"},
                                        r \in {SortedRanks[i] : i \in 1..13}}
CardSet(cards) == {cards[i] : i \in 1..Len(cards)}

C16_NewSorted ==
  deckOp = "new_sorted" =>
    /\ Len(deck) = 52
    /\ \A i, j \in 1..Len(deck) : i # j => deck[i] # deck[j]
    /\ CardSet(deck) = AllCards
    /\ \A s \in 1..4, r \in 1..13 :
         deck[13 * (s - 1) + r] = [suit |-> SortedSuits[s], rank |-> SortedRanks[r]]

\* A deck just made by new_sorted: the Ace of Spades at the bottom, the
\* King of Clubs on top.
C16_Witness ==
  /\ deckOp = "new_sorted"
  /\ deck[1] = [suit |-> "Spade", rank |-> "Ace"]
  /\ deck[Len(deck)] = [suit |-> "Club", rank |-> "King"]

(***************************************************************************)
(* C19  Card conservation.  While no operation panicked, the deck, the     *)
(* hands dealt and the cards cut hold the 52 cards, each once.  A deal     *)
(* takes the 12 cards at the end of the list, the last to the opponent,    *)
(* the one before to the dealer and so on, six each, and leaves the rest   *)
(* in place; a cut takes one card and leaves the rest in order.            *)
(***************************************************************************)
RECURSIVE Flatten(_)
Flatten(hs) ==
  IF hs = <<>> THEN <<>>
  ELSE Head(hs).dealer \o Head(hs).opponent \o Flatten(Tail(hs))

Held == deck \o Flatten(hands) \o cuts

Conserved ==
  deckOp \notin {"none", "panic"} =>
    /\ Len(Held) = 52
    /\ CardSet(Held) = AllCards

DealStep ==
  (deckOp' = "deal" /\ deckOps' = deckOps + 1) =>
    LET n == Len(deck)
        h == hands'[Len(hands')]
    IN /\ n >= 12
       /\ deck' = SubSeq(deck, 1, n - 12)
       /\ Len(hands') = Len(hands) + 1
       /\ h.opponent = <<deck[n], deck[n - 2], deck[n - 4],
                         deck[n - 6], deck[n - 8], deck[n - 10]>>
       /\ h.dealer = <<deck[n - 1], deck[n - 3], deck[n - 5],
                       deck[n - 7], deck[n - 9], deck[n - 11]>>
       /\ cuts' = cuts

CutStep ==
  (deckOp' = "cut" /\ deckOps' = deckOps + 1) =>
    /\ Len(deck') = Len(deck) - 1
    /\ \E i \in 1..Len(deck) :
         /\ deck' = SubSeq(deck, 1, i - 1) \o SubSeq(deck, i + 1, Len(deck))
         /\ cuts' = Append(cuts, deck[i])
    /\ hands' = hands

C19_CardConservation == []Conserved /\ [][DealStep /\ CutStep]_vars

\* A shuffled deck was dealt from twice and cut, a card from inside it.
C19_Witness ==
  /\ deckOp = "cut"
  /\ Len(hands) = 2
  /\ Len(cuts) = 1
  /\ Len(deck) = 27
  /\ deck # SubSeq(NewSorted, 1, 27)
  /\ \E i \in 2..Len(deck) :
       \E j \in 1..51 : deck[i - 1] = NewSorted[j] /\ deck[i] # NewSorted[j + 1]

====
